---- MODULE Spec2Model ----
(***************************************************************************)
(* https-wrapper: a TLS-terminating reverse proxy.                         *)
(*                                                                         *)
(* The model follows src/src/main.rs (argument dispatch, start-up, the     *)
(* accept loop and the per-connection task) and src/src/certificate.rs     *)
(* (PKCS#12 and PEM loading, extension detection).                         *)
(*                                                                         *)
(* Strings are TLA+ strings.  A file is described by what the parsers the  *)
(* program calls can see in its bytes: nothing (zero length), bytes that   *)
(* are neither a PKCS#12 container nor PEM text, a PKCS#12 container, or   *)
(* PEM text made of sections.                                              *)
(***************************************************************************)
EXTENDS Naturals, Sequences, FiniteSets, TLC

VARIABLES
    args,       \* the parsed command line                  (main.rs Args)
    fs,         \* the file system: file name -> file
    pc,         \* where main() is
    loaded,     \* (certs, private_key) once loaded, else None
    config,     \* the TLS ServerConfig once built, else None
    exitErr,    \* the error main() returned, else None
    listener,   \* "unbound" | "bound" | "closed"
    conns       \* the tasks spawned by the accept loop, in accept order

vars == <<args, fs, pc, loaded, config, exitErr, listener, conns>>

None == [none |-> TRUE]

Some(v) == [some |-> v]

IsSome(o) == o # None

----------------------------------------------------------------------------
(* Bounds of the model *)

\* longest PEM certificate file, in PEM sections
MaxCertItems == 2

\* longest PEM key file, in PEM sections
MaxKeyItems == 1

\* most certificates in the CA stack of a PKCS#12 container
MaxCa == 2

\* most connections the accept loop accepts
MaxConns == 2

\* most bytes the peers of all connections send in total
MaxBytes == 2

----------------------------------------------------------------------------
(* Strings, paths and extensions *)

NoExtension == "<none>"

\* std::path::Path::extension on the file names of the model
Extension(path) ==
    CASE path = "srv.pfx"  -> "pfx"
      [] path = "srv.P12"  -> "P12"
      [] path = "srv.pem"  -> "pem"
      [] path = "srv.crt"  -> "crt"
      [] path = "srv.cer"  -> "cer"
      [] path = "srv.cert" -> "cert"
      [] path = "srv.key"  -> "key"
      [] path = "srv.txt"  -> "txt"
      [] OTHER             -> NoExtension

\* str::to_lowercase on the extensions of the model
ToLowercase(ext) ==
    CASE ext = "P12" -> "p12"
      [] OTHER       -> ext

CertPaths ==
    {"srv.pfx", "srv.P12", "srv.pem", "srv.crt", "srv.cer", "srv.cert",
     "srv.key", "srv.txt", "srv"}

Passwords == {"", "secret", "wrong"}

FileNames == CertPaths \cup Passwords

----------------------------------------------------------------------------
(* Files *)

Missing == [kind |-> "missing"]

\* exists, but cannot be opened or read (e.g. no read permission)
Unreadable == [kind |-> "unreadable"]

\* zero-length file
EmptyFile == [kind |-> "bytes", len |-> 0, shape |-> "none"]

\* non-empty bytes that hold neither a PKCS#12 container nor a PEM section
Garbage == [kind |-> "bytes", len |-> 1, shape |-> "garbage"]

Certs == {"leaf", "ca1", "ca2"}

X509(c) == [x509 |-> c]

PKey(k) == [pkey |-> k]

RECURSIVE SeqsUpTo(_, _)
SeqsUpTo(S, n) ==
    IF n = 0 THEN {<<>>}
    ELSE LET shorter == SeqsUpTo(S, n - 1)
         IN  shorter \cup {Append(s, x) : s \in shorter, x \in S}

CaStacks ==
    {None} \cup {Some(s) : s \in SeqsUpTo({X509("ca1"), X509("ca2")}, MaxCa)}

\* a well-formed PKCS#12 container: what Pkcs12::parse2 yields under its password
PfxBlobs ==
    [kind : {"bytes"}, len : {1}, shape : {"pfx"}, password : {"", "secret"},
     sound : {TRUE},
     cert : {None, Some(X509("leaf"))},
     ca : CaStacks,
     pkey : {None, Some(PKey("k1"))}]

\* a container whose outer structure parses but whose contents never extract
BrokenPfx ==
    [kind |-> "bytes", len |-> 1, shape |-> "pfx", password |-> "secret",
     sound |-> FALSE, cert |-> None, ca |-> None, pkey |-> None]

\* PEM sections: certificates, private keys, and a section that does not decode
PemSections ==
    {[type |-> "CERTIFICATE", der |-> "leaf"],
     [type |-> "CERTIFICATE", der |-> "ca1"],
     [type |-> "PRIVATE KEY", der |-> "k1"],
     [type |-> "MALFORMED", der |-> "?"]}

PemText(items) == [kind |-> "bytes", len |-> 1, shape |-> "pem", items |-> items]

PemTexts(n) == {PemText(s) : s \in SeqsUpTo(PemSections, n) \ {<<>>}}

Exists(f) == f.kind # "missing"

Readable(f) == f.kind = "bytes"

----------------------------------------------------------------------------
(* Results.  An error is its kind (the message the program prints, named   *)
(* after the error taxonomy where it has a name) and what the message      *)
(* names (a path or an extension).                                         *)

Ok(certs, key) == [ok |-> TRUE, certs |-> certs, key |-> key]

Err(kind, detail) == [ok |-> FALSE, kind |-> kind, detail |-> detail]

\* X509::to_der
ToDer(cert) == [der |-> cert.x509]

\* PKey::private_key_to_pkcs8 wrapped in PrivateKeyDer::Pkcs8
ToPkcs8(key) == [format |-> "Pkcs8", der |-> key.pkey]

\* Pkcs12::from_der: the outer structure parses
FromDerOk(data) == data.shape = "pfx"

\* Pkcs12::parse2: the contents extract under the password
Parse2Ok(data, password) == data.sound /\ data.password = password

RECURSIVE MapToDer(_)
MapToDer(chain) ==
    IF chain = <<>> THEN <<>>
    ELSE <<ToDer(Head(chain))>> \o MapToDer(Tail(chain))

\* a certs vector built from parsed.ca first, parsed.cert last
PfxCertsCaFirst(data) ==
    (IF IsSome(data.ca) THEN MapToDer(data.ca.some) ELSE <<>>)
    \o (IF IsSome(data.cert) THEN <<ToDer(data.cert.some)>> ELSE <<>>)

\* the certs vector built from parsed.cert then parsed.ca
PfxCerts(data) ==
    (IF IsSome(data.cert) THEN <<ToDer(data.cert.some)>> ELSE <<>>)
    \o (IF IsSome(data.ca) THEN MapToDer(data.ca.some) ELSE <<>>)

\* a decoder that reports every extraction failure as a wrong password
parse_pfx_bytes_one_message(data, password) ==
    IF data.len = 0
    THEN Err("EmptyPfxData", "")
    ELSE IF ~FromDerOk(data)
    THEN Err("MalformedBundle", "")
    ELSE IF ~Parse2Ok(data, password)
    THEN Err("InvalidPassword", "")
    ELSE IF ~IsSome(data.pkey)
    THEN Err("MissingPrivateKey", "")
    ELSE Ok(PfxCerts(data), ToPkcs8(data.pkey.some))

parse_pfx_bytes(data, password) ==
    IF data.len = 0
    THEN Err("EmptyPfxData", "")
    ELSE IF ~FromDerOk(data)
    THEN Err("MalformedBundle", "")
    ELSE IF ~Parse2Ok(data, password)
    THEN (IF password = ""
          THEN Err("PasswordRequired", "--password")
          ELSE Err("InvalidPassword", ""))
    ELSE IF ~IsSome(data.pkey)
    THEN Err("MissingPrivateKey", "")
    ELSE Ok(PfxCerts(data), ToPkcs8(data.pkey.some))

\* Option::unwrap_or("")
UnwrapOrEmpty(password) == IF IsSome(password) THEN password.some ELSE ""

\* a loader without the zero-length check
load_certificate_no_size_check(certificate_path, password, validate_extension) ==
    LET f   == fs[certificate_path]
        ext == ToLowercase(Extension(certificate_path))
    IN  IF ~Exists(f)
        THEN Err("FileNotFound", certificate_path)
        ELSE IF /\ validate_extension
                /\ Extension(certificate_path) # NoExtension
                /\ ext # "pfx"
                /\ ext # "p12"
        THEN Err("UnsupportedExtension", ext)
        ELSE IF ~Readable(f)
        THEN Err("ReadError", certificate_path)
        ELSE parse_pfx_bytes(f, UnwrapOrEmpty(password))

load_certificate(certificate_path, password, validate_extension) ==
    LET f   == fs[certificate_path]
        ext == ToLowercase(Extension(certificate_path))
    IN  IF ~Exists(f)
        THEN Err("FileNotFound", certificate_path)
        ELSE IF /\ validate_extension
                /\ Extension(certificate_path) # NoExtension
                /\ ext # "pfx"
                /\ ext # "p12"
        THEN Err("UnsupportedExtension", ext)
        ELSE IF ~Readable(f)
        THEN Err("ReadError", certificate_path)
        ELSE IF f.len = 0
        THEN Err("EmptyFile", "")
        ELSE parse_pfx_bytes(f, UnwrapOrEmpty(password))

\* the PEM sections rustls_pemfile reads from a file's bytes
Sections(f) == IF f.shape = "pem" THEN f.items ELSE <<>>

\* rustls_pemfile::certs collected into Result<Vec<_>, _>: every CERTIFICATE
\* section in file order, other sections skipped, the first section that does
\* not decode ends the collection with an error
\* a collection that pushes each certificate to the front
RECURSIVE PemCertsReversed(_, _)
PemCertsReversed(items, acc) ==
    IF items = <<>> THEN [ok |-> TRUE, certs |-> acc]
    ELSE LET it == Head(items)
         IN  IF it.type = "MALFORMED" THEN [ok |-> FALSE, certs |-> <<>>]
             ELSE IF it.type = "CERTIFICATE"
             THEN PemCertsReversed(Tail(items), <<[der |-> it.der]>> \o acc)
             ELSE PemCertsReversed(Tail(items), acc)

RECURSIVE PemCerts(_, _)
PemCerts(items, acc) ==
    IF items = <<>> THEN [ok |-> TRUE, certs |-> acc]
    ELSE LET it == Head(items)
         IN  IF it.type = "MALFORMED" THEN [ok |-> FALSE, certs |-> <<>>]
             ELSE IF it.type = "CERTIFICATE"
             THEN PemCerts(Tail(items), Append(acc, [der |-> it.der]))
             ELSE PemCerts(Tail(items), acc)

\* rustls_pemfile::private_key: the first private-key section, None when the
\* file has none, an error when a section before it does not decode
RECURSIVE PemPrivateKey(_)
PemPrivateKey(items) ==
    IF items = <<>> THEN [ok |-> TRUE, key |-> None]
    ELSE LET it == Head(items)
         IN  IF it.type = "MALFORMED" THEN [ok |-> FALSE, key |-> None]
             ELSE IF it.type = "PRIVATE KEY"
             THEN [ok |-> TRUE, key |-> Some([format |-> "Pkcs8", der |-> it.der])]
             ELSE PemPrivateKey(Tail(items))

\* a loader that looks for the key file only when it comes to open it
load_pem_certificate_late_key_check(cert_path, key_path) ==
    LET cf    == fs[cert_path]
        kf    == fs[key_path]
        certs == PemCerts(Sections(cf), <<>>)
        key   == PemPrivateKey(Sections(kf))
    IN  IF ~Exists(cf)
        THEN Err("FileNotFound", cert_path)
        ELSE IF ~Readable(cf)
        THEN Err("ReadError", cert_path)
        ELSE IF ~certs.ok
        THEN Err("PemParseError", cert_path)
        ELSE IF certs.certs = <<>>
        THEN Err("NoCertificatesFound", "")
        ELSE IF ~Exists(kf)
        THEN Err("FileNotFound", key_path)
        ELSE IF ~Readable(kf)
        THEN Err("ReadError", key_path)
        ELSE IF ~key.ok
        THEN Err("PemParseError", key_path)
        ELSE IF ~IsSome(key.key)
        THEN Err("MissingPrivateKey", "")
        ELSE Ok(certs.certs, key.key.some)

load_pem_certificate(cert_path, key_path) ==
    LET cf    == fs[cert_path]
        kf    == fs[key_path]
        certs == PemCerts(Sections(cf), <<>>)
        key   == PemPrivateKey(Sections(kf))
    IN  IF ~Exists(cf)
        THEN Err("FileNotFound", cert_path)
        ELSE IF ~Exists(kf)
        THEN Err("FileNotFound", key_path)
        ELSE IF ~Readable(cf)
        THEN Err("ReadError", cert_path)
        ELSE IF ~certs.ok
        THEN Err("PemParseError", cert_path)
        ELSE IF certs.certs = <<>>
        THEN Err("NoCertificatesFound", "")
        ELSE IF ~Readable(kf)
        THEN Err("ReadError", key_path)
        ELSE IF ~key.ok
        THEN Err("PemParseError", key_path)
        ELSE IF ~IsSome(key.key)
        THEN Err("MissingPrivateKey", "")
        ELSE Ok(certs.certs, key.key.some)

PfxExtensions == {"pfx", "p12"}

PemExtensions == {"pem", "crt", "cer", "cert", "key"}

\* Ok(CertType) or Err
detect_cert_type(path) ==
    LET ext == ToLowercase(Extension(path))
    IN  IF Extension(path) = NoExtension
        THEN [ok |-> FALSE, kind |-> "NoExtension", detail |-> ""]
        ELSE IF ext \in PfxExtensions THEN [ok |-> TRUE, type |-> "Pfx"]
        ELSE IF ext \in PemExtensions THEN [ok |-> TRUE, type |-> "Pem"]
        ELSE [ok |-> FALSE, kind |-> "UnsupportedExtension", detail |-> ext]

\* a dispatch whose positional PKCS#12 source falls back to --password
LoadFromArgsPasswordFallback ==
    IF IsSome(args.pfx)
    THEN load_certificate(args.pfx.some, args.password, FALSE)
    ELSE IF IsSome(args.cert)
    THEN load_pem_certificate(args.cert.some, args.key.some)
    ELSE IF IsSome(args.certificate)
    THEN LET cert_type == detect_cert_type(args.certificate.some)
         IN  IF ~cert_type.ok
             THEN Err(cert_type.kind, cert_type.detail)
             ELSE IF cert_type.type = "Pfx"
             THEN load_certificate(args.certificate.some,
                                   IF IsSome(args.password_or_key)
                                   THEN args.password_or_key ELSE args.password,
                                   TRUE)
             ELSE IF ~IsSome(args.password_or_key)
             THEN Err("MissingKeyArgument", "")
             ELSE load_pem_certificate(args.certificate.some,
                                       args.password_or_key.some)
    ELSE Err("NoCertificateSpecified", "")

\* a dispatch that validates the extension of a --pfx file too
LoadFromArgsValidatesNamed ==
    IF IsSome(args.pfx)
    THEN load_certificate(args.pfx.some, args.password, TRUE)
    ELSE IF IsSome(args.cert)
    THEN load_pem_certificate(args.cert.some, args.key.some)
    ELSE IF IsSome(args.certificate)
    THEN LET cert_type == detect_cert_type(args.certificate.some)
         IN  IF ~cert_type.ok
             THEN Err(cert_type.kind, cert_type.detail)
             ELSE IF cert_type.type = "Pfx"
             THEN load_certificate(args.certificate.some, args.password_or_key, TRUE)
             ELSE IF ~IsSome(args.password_or_key)
             THEN Err("MissingKeyArgument", "")
             ELSE load_pem_certificate(args.certificate.some,
                                       args.password_or_key.some)
    ELSE Err("NoCertificateSpecified", "")

\* main(): the certificate source chosen from the arguments, and its load
LoadFromArgs ==
    IF IsSome(args.pfx)
    THEN load_certificate(args.pfx.some, args.password, FALSE)
    ELSE IF IsSome(args.cert)
    THEN load_pem_certificate(args.cert.some, args.key.some)
    ELSE IF IsSome(args.certificate)
    THEN LET cert_type == detect_cert_type(args.certificate.some)
         IN  IF ~cert_type.ok
             THEN Err(cert_type.kind, cert_type.detail)
             ELSE IF cert_type.type = "Pfx"
             THEN load_certificate(args.certificate.some, args.password_or_key, TRUE)
             ELSE IF ~IsSome(args.password_or_key)
             THEN Err("MissingKeyArgument", "")
             ELSE load_pem_certificate(args.certificate.some,
                                       args.password_or_key.some)
    ELSE Err("NoCertificateSpecified", "")

----------------------------------------------------------------------------
(* The command line and the file system main() starts from *)

Option(S) == {None} \cup {Some(x) : x \in S}

ListenAddresses == {"127.0.0.1:8443", "localhost"}

\* str::parse::<SocketAddr>: an ip:port literal parses, a host name does not
ParsesAsSocketAddr(s) == s = "127.0.0.1:8443"

KeyPaths == {"srv.key", "srv.pem"}

NoArgs ==
    [input_address |-> "127.0.0.1:8443", pfx |-> None, cert |-> None,
     key |-> None, certificate |-> None, password_or_key |-> None,
     password |-> None]

\* --pfx FILE [--password P]
NamedPfxArgs ==
    {[NoArgs EXCEPT !.input_address = a, !.pfx = Some(p), !.password = pw] :
        a \in ListenAddresses, p \in CertPaths, pw \in Option(Passwords)}

\* --cert FILE --key FILE
NamedPemArgs ==
    {[NoArgs EXCEPT !.input_address = a, !.cert = Some(c), !.key = Some(k)] :
        a \in ListenAddresses, c \in CertPaths, k \in KeyPaths}

\* CERTIFICATE [PASSWORD_OR_KEY] [--password P]
PositionalArgs ==
    {[NoArgs EXCEPT !.certificate = Some(c), !.password_or_key = pk,
                    !.password = pw] :
        c \in CertPaths, pk \in Option(Passwords \cup KeyPaths),
        pw \in {None, Some("secret")}}

\* the command lines clap lets through: the positional certificate conflicts
\* with --pfx and --cert, --pfx with --cert and --key, --cert and --key
\* require each other
ArgsSet == NamedPfxArgs \cup NamedPemArgs \cup PositionalArgs \cup {NoArgs}

\* the file the arguments name as the certificate (or bundle), if any
CertPathOf(a) ==
    IF IsSome(a.pfx) THEN a.pfx
    ELSE IF IsSome(a.cert) THEN a.cert
    ELSE a.certificate

\* the file the arguments name as the PEM key, if any
KeyPathOf(a) ==
    IF IsSome(a.pfx) THEN None
    ELSE IF IsSome(a.cert) THEN a.key
    ELSE IF /\ IsSome(a.certificate)
            /\ ToLowercase(Extension(a.certificate.some)) \in PemExtensions
    THEN a.password_or_key
    ELSE None

PfxFiles ==
    {Missing, Unreadable, EmptyFile, Garbage, BrokenPfx} \cup PfxBlobs

PemCertFiles ==
    {Missing, Unreadable, EmptyFile, Garbage} \cup PemTexts(MaxCertItems)

PemKeyFiles ==
    {Missing, Unreadable, EmptyFile, Garbage} \cup PemTexts(MaxKeyItems)

\* the file systems considered for a command line: the files it names hold
\* any content of the format the command line asks for, no other file exists
FileSystems(a) ==
    LET c == CertPathOf(a)
        k == KeyPathOf(a)
    IN  IF ~IsSome(c) THEN {[n \in FileNames |-> Missing]}
        ELSE IF ~IsSome(k)
        THEN {[n \in FileNames |-> IF n = c.some THEN f ELSE Missing] :
                f \in PfxFiles}
        ELSE {[n \in FileNames |->
                  IF n = c.some THEN cf
                  ELSE IF n = k.some THEN kf ELSE Missing] :
                cf \in PemCertFiles, kf \in PemKeyFiles}

\* the starts the serving process is explored from: a PKCS#12 and a PEM
\* start that load, and starts that fail at each step of start-up
GoodPfx ==
    [kind |-> "bytes", len |-> 1, shape |-> "pfx", password |-> "secret",
     sound |-> TRUE, cert |-> Some(X509("leaf")),
     ca |-> Some(<<X509("ca1")>>), pkey |-> Some(PKey("k1"))]

OnlyFile(name, f) == [n \in FileNames |-> IF n = name THEN f ELSE Missing]

GoodPem ==
    PemText(<<[type |-> "CERTIFICATE", der |-> "leaf"],
              [type |-> "PRIVATE KEY", der |-> "k1"]>>)

SampleStarts ==
    {[args |-> [NoArgs EXCEPT !.pfx = Some("srv.pfx"), !.password = Some("secret")],
      fs   |-> OnlyFile("srv.pfx", GoodPfx)],
     [args |-> [NoArgs EXCEPT !.cert = Some("srv.pem"), !.key = Some("srv.pem")],
      fs   |-> OnlyFile("srv.pem", GoodPem)],
     [args |-> [NoArgs EXCEPT !.pfx = Some("srv.pfx"), !.password = Some("wrong")],
      fs   |-> OnlyFile("srv.pfx", GoodPfx)],
     [args |-> [NoArgs EXCEPT !.input_address = "localhost",
                              !.pfx = Some("srv.pfx"), !.password = Some("secret")],
      fs   |-> OnlyFile("srv.pfx", GoodPfx)],
     [args |-> [NoArgs EXCEPT !.certificate = Some("srv.txt")],
      fs   |-> OnlyFile("srv.txt", GoodPfx)],
     [args |-> [NoArgs EXCEPT !.certificate = Some("srv.crt"),
                              !.password_or_key = Some("srv.key")],
      fs   |-> OnlyFile("srv.crt", GoodPem)],
     [args |-> NoArgs,
      fs   |-> OnlyFile("srv.pfx", GoodPfx)]}

InitProcess ==
    /\ pc = "load"
    /\ loaded = None
    /\ config = None
    /\ exitErr = None
    /\ listener = "unbound"
    /\ conns = <<>>

\* every command line, every file system for it
InitLoad ==
    /\ args \in ArgsSet
    /\ fs \in FileSystems(args)
    /\ InitProcess

Init ==
    /\ \E s \in SampleStarts : args = s.args /\ fs = s.fs
    /\ InitProcess

----------------------------------------------------------------------------
(* main(): start-up *)

\* a load whose error is swallowed: start-up goes on with an empty identity
LoadCertificatesSwallowsError ==
    /\ pc = "load"
    /\ LET r == LoadFromArgs
       IN  loaded' = Some([certs |-> IF r.ok THEN r.certs ELSE <<>>,
                           key   |-> IF r.ok THEN r.key ELSE None])
    /\ pc' = "tls_config"
    /\ UNCHANGED <<args, fs, config, exitErr, listener, conns>>

\* main.rs 53-79: load the certificate chain and the private key
LoadCertificates ==
    /\ pc = "load"
    /\ LET r == LoadFromArgs
       IN  IF r.ok
           THEN /\ loaded' = Some([certs |-> r.certs, key |-> r.key])
                /\ pc' = "tls_config"
                /\ exitErr' = exitErr
           ELSE /\ loaded' = loaded
                /\ pc' = "exit"
                /\ exitErr' = Some(Err(r.kind, r.detail))
    /\ UNCHANGED <<args, fs, config, listener, conns>>

\* main.rs 82-84: ServerConfig::builder().with_no_client_auth()
\* .with_single_cert(certs, private_key)?  The TLS stack accepts or rejects
\* the identity (key it cannot use, key that does not fit the certificate).
BuildTlsConfig ==
    /\ pc = "tls_config"
    /\ \E accepted \in BOOLEAN :
          IF accepted
          THEN /\ pc' = "parse_addr"
               /\ config' = Some([client_auth |-> "none", identity |-> loaded.some])
               /\ exitErr' = exitErr
          ELSE /\ pc' = "exit"
               /\ config' = config
               /\ exitErr' = Some(Err("TlsConfigError", ""))
    /\ UNCHANGED <<args, fs, loaded, listener, conns>>

\* main.rs 86: args.input_address.parse::<SocketAddr>()?
ParseListenAddress ==
    /\ pc = "parse_addr"
    /\ IF ParsesAsSocketAddr(args.input_address)
       THEN pc' = "bind" /\ exitErr' = exitErr
       ELSE pc' = "exit" /\ exitErr' = Some(Err("AddrParseError", args.input_address))
    /\ UNCHANGED <<args, fs, loaded, config, listener, conns>>

\* main.rs 87: TcpListener::bind(addr).await?  The address is free or in use.
Bind ==
    /\ pc = "bind"
    /\ \E bound \in BOOLEAN :
          IF bound
          THEN pc' = "serving" /\ listener' = "bound" /\ exitErr' = exitErr
          ELSE /\ pc' = "exit"
               /\ listener' = listener
               /\ exitErr' = Some(Err("BindError", args.input_address))
    /\ UNCHANGED <<args, fs, loaded, config, conns>>

NextLoad ==
    \/ LoadCertificates
    \/ BuildTlsConfig
    \/ ParseListenAddress
    \/ Bind

SpecLoad == InitLoad /\ [][NextLoad]_vars

----------------------------------------------------------------------------
(* main(): the accept loop and the task spawned per accepted connection.   *)
(*                                                                         *)
(* A connection: its state; whether the task holds the client-facing       *)
(* stream and the backend stream; the line the task logged when it ended;  *)
(* and, per relay direction, the bytes the sending peer has sent, the      *)
(* bytes the copy has read and not yet written, the bytes written to the   *)
(* receiving peer, and the state of that direction of copy_bidirectional   *)
(* (Running until it has read end-of-stream, flushed and shut its writer   *)
(* down, then Done).                                                       *)

\* c2b: client to backend; b2c: backend to client
Dirs == {"c2b", "b2c"}

\* the k-th byte a peer sends: each peer sends a prefix of "pqpq..."
MessageByte(k) == IF k % 2 = 1 THEN "p" ELSE "q"

NewConn ==
    [state |-> "Accepted", client |-> TRUE, backend |-> FALSE, log |-> "none",
     sent      |-> [d \in Dirs |-> <<>>],
     buf       |-> [d \in Dirs |-> <<>>],
     delivered |-> [d \in Dirs |-> <<>>],
     copy      |-> [d \in Dirs |-> "Running"]]

\* a task end that forgets the backend stream, leaving it open
EndedLeaksBackend(c, line) ==
    [NewConn EXCEPT !.state = "Closed", !.client = FALSE, !.backend = c.backend,
                    !.log = line, !.copy = [d \in Dirs |-> "Done"]]

\* the task has ended: its streams are dropped, which closes them and
\* discards the copy's state and buffers with what was in flight
Ended(c, line) ==
    [NewConn EXCEPT !.state = "Closed", !.client = FALSE, !.backend = FALSE,
                    !.log = line, !.copy = [d \in Dirs |-> "Done"]]

RECURSIVE SumSent(_)
SumSent(cs) ==
    IF cs = <<>> THEN 0
    ELSE Len(Head(cs).sent["c2b"]) + Len(Head(cs).sent["b2c"]) + SumSent(Tail(cs))

Live(i) == i \in 1..Len(conns) /\ conns[i].state # "Closed"

\* an accept loop that runs the handshake itself before accepting again
AcceptAfterHandshakes ==
    /\ pc = "serving"
    /\ Len(conns) < MaxConns
    /\ \A i \in 1..Len(conns) : conns[i].state \notin {"Accepted", "Handshaking"}
    /\ conns' = Append(conns, NewConn)
    /\ UNCHANGED <<args, fs, pc, loaded, config, exitErr, listener>>

\* main.rs 95-99: listener.accept().await succeeds, the task is spawned
Accept ==
    /\ pc = "serving"
    /\ Len(conns) < MaxConns
    /\ conns' = Append(conns, NewConn)
    /\ UNCHANGED <<args, fs, pc, loaded, config, exitErr, listener>>

\* main.rs 95: listener.accept().await? fails: main returns the error, the
\* runtime is dropped with the listener and every task still running
AcceptError ==
    /\ pc = "serving"
    /\ pc' = "exit"
    /\ exitErr' = Some(Err("AcceptError", ""))
    /\ listener' = "closed"
    /\ conns' = [i \in 1..Len(conns) |->
                    IF conns[i].state = "Closed" THEN conns[i]
                    ELSE Ended(conns[i], "dropped at exit")]
    /\ UNCHANGED <<args, fs, loaded, config>>

\* main.rs 99-101: the task starts and awaits tls_acceptor.accept
StartTask(i) ==
    /\ Live(i)
    /\ conns[i].state = "Accepted"
    /\ conns' = [conns EXCEPT ![i].state = "Handshaking"]
    /\ UNCHANGED <<args, fs, pc, loaded, config, exitErr, listener>>

\* a task that starts relaying right after the handshake
HandshakeOkSkipsDial(i) ==
    /\ Live(i)
    /\ conns[i].state = "Handshaking"
    /\ conns' = [conns EXCEPT ![i].state = "Relaying"]
    /\ UNCHANGED <<args, fs, pc, loaded, config, exitErr, listener>>

\* main.rs 101-102: the handshake succeeds; the task awaits TcpStream::connect
HandshakeOk(i) ==
    /\ Live(i)
    /\ conns[i].state = "Handshaking"
    /\ conns' = [conns EXCEPT ![i].state = "Dialing"]
    /\ UNCHANGED <<args, fs, pc, loaded, config, exitErr, listener>>

\* a handshake failure that is logged and the handshake tried again
HandshakeFailRetries(i) ==
    /\ Live(i)
    /\ conns[i].state = "Handshaking"
    /\ conns' = [conns EXCEPT ![i].log = "TLS handshake error"]
    /\ UNCHANGED <<args, fs, pc, loaded, config, exitErr, listener>>

\* a handshake failure that is propagated out of the accept loop
HandshakeFailStopsServer(i) ==
    /\ Live(i)
    /\ conns[i].state = "Handshaking"
    /\ conns' = [conns EXCEPT ![i] = Ended(@, "TLS handshake error")]
    /\ pc' = "exit"
    /\ exitErr' = Some(Err("HandshakeError", ""))
    /\ listener' = "closed"
    /\ UNCHANGED <<args, fs, loaded, config>>

\* main.rs 103-106: the handshake fails
HandshakeFail(i) ==
    /\ Live(i)
    /\ conns[i].state = "Handshaking"
    /\ conns' = [conns EXCEPT ![i] = Ended(@, "TLS handshake error")]
    /\ UNCHANGED <<args, fs, pc, loaded, config, exitErr, listener>>

\* main.rs 110-111, 118: the backend is connected; copy_bidirectional starts
DialOk(i) ==
    /\ Live(i)
    /\ conns[i].state = "Dialing"
    /\ conns' = [conns EXCEPT ![i].state = "Relaying", ![i].backend = TRUE]
    /\ UNCHANGED <<args, fs, pc, loaded, config, exitErr, listener>>

\* a dial failure after which the client-facing stream is kept
DialFailKeepsClient(i) ==
    /\ Live(i)
    /\ conns[i].state = "Dialing"
    /\ conns' = [conns EXCEPT ![i] = [Ended(@, "Backend connection error")
                                       EXCEPT !.client = TRUE]]
    /\ UNCHANGED <<args, fs, pc, loaded, config, exitErr, listener>>

\* main.rs 112-115: the backend cannot be connected
DialFail(i) ==
    /\ Live(i)
    /\ conns[i].state = "Dialing"
    /\ conns' = [conns EXCEPT ![i] = Ended(@, "Backend connection error")]
    /\ UNCHANGED <<args, fs, pc, loaded, config, exitErr, listener>>

\* the peer that sends in direction d can send: the client once the
\* handshake is done, the backend once it is connected
PeerUp(c, d) ==
    IF d = "c2b" THEN c.state \in {"Dialing", "Relaying"}
    ELSE c.state = "Relaying"

\* a peer that has not closed its sending side sends its next byte
PeerSend(i, d) ==
    /\ Live(i)
    /\ PeerUp(conns[i], d)
    /\ conns[i].copy[d] = "Running"
    /\ SumSent(conns) < MaxBytes
    /\ conns' = [conns EXCEPT ![i].sent[d] = Append(@, MessageByte(Len(@) + 1))]
    /\ UNCHANGED <<args, fs, pc, loaded, config, exitErr, listener>>

\* bytes of direction d the copy has taken from the sending peer
Taken(c, d) == Len(c.delivered[d]) + Len(c.buf[d])

\* main.rs 121-124, copy_bidirectional: a read of n bytes in direction d
CopyRead(i, d, n) ==
    /\ Live(i)
    /\ conns[i].state = "Relaying"
    /\ conns[i].copy[d] = "Running"
    /\ n \in 1..(Len(conns[i].sent[d]) - Taken(conns[i], d))
    /\ conns' = [conns EXCEPT ![i].buf[d] =
                    @ \o SubSeq(conns[i].sent[d], Taken(conns[i], d) + 1,
                                Taken(conns[i], d) + n)]
    /\ UNCHANGED <<args, fs, pc, loaded, config, exitErr, listener>>

\* a write that takes n bytes out of the buffer but writes one byte fewer
CopyWriteShort(i, d, n) ==
    /\ Live(i)
    /\ conns[i].state = "Relaying"
    /\ conns[i].copy[d] = "Running"
    /\ n \in 1..Len(conns[i].buf[d])
    /\ conns' = [conns EXCEPT
                    ![i].delivered[d] = @ \o SubSeq(conns[i].buf[d], 1, n - 1),
                    ![i].buf[d] = SubSeq(@, n + 1, Len(@))]
    /\ UNCHANGED <<args, fs, pc, loaded, config, exitErr, listener>>

\* copy_bidirectional: a write of the first n buffered bytes in direction d
CopyWrite(i, d, n) ==
    /\ Live(i)
    /\ conns[i].state = "Relaying"
    /\ conns[i].copy[d] = "Running"
    /\ n \in 1..Len(conns[i].buf[d])
    /\ conns' = [conns EXCEPT
                    ![i].delivered[d] = @ \o SubSeq(conns[i].buf[d], 1, n),
                    ![i].buf[d] = SubSeq(@, n + 1, Len(@))]
    /\ UNCHANGED <<args, fs, pc, loaded, config, exitErr, listener>>

\* copy_bidirectional: the sending peer of direction d has closed its side
\* cleanly; the copy reads end-of-stream after the last byte, with everything
\* written, shuts down its writer, and this direction is done
CopyEof(i, d) ==
    /\ Live(i)
    /\ conns[i].state = "Relaying"
    /\ conns[i].copy[d] = "Running"
    /\ Taken(conns[i], d) = Len(conns[i].sent[d])
    /\ conns[i].buf[d] = <<>>
    /\ conns' = [conns EXCEPT ![i].copy[d] = "Done"]
    /\ UNCHANGED <<args, fs, pc, loaded, config, exitErr, listener>>

\* a relay that returns as soon as one direction is done
RelayDoneOnFirstEof(i) ==
    /\ Live(i)
    /\ conns[i].state = "Relaying"
    /\ \E d \in Dirs : conns[i].copy[d] = "Done"
    /\ conns' = [conns EXCEPT ![i] = Ended(@, "none")]
    /\ UNCHANGED <<args, fs, pc, loaded, config, exitErr, listener>>

\* main.rs 121-127: copy_bidirectional returns Ok once both directions are
\* done; the task ends
RelayDone(i) ==
    /\ Live(i)
    /\ conns[i].state = "Relaying"
    /\ \A d \in Dirs : conns[i].copy[d] = "Done"
    /\ conns' = [conns EXCEPT ![i] = Ended(@, "none")]
    /\ UNCHANGED <<args, fs, pc, loaded, config, exitErr, listener>>

\* main.rs 121-126: a read, write, flush or shutdown of either direction
\* fails; copy_bidirectional returns the error; the task logs it and ends
RelayError(i) ==
    /\ Live(i)
    /\ conns[i].state = "Relaying"
    /\ conns' = [conns EXCEPT ![i] = Ended(@, "Proxy forwarding error")]
    /\ UNCHANGED <<args, fs, pc, loaded, config, exitErr, listener>>

Next ==
    \/ LoadCertificates
    \/ BuildTlsConfig
    \/ ParseListenAddress
    \/ Bind
    \/ Accept
    \/ AcceptError
    \/ \E i \in 1..MaxConns : StartTask(i)
    \/ \E i \in 1..MaxConns : HandshakeOk(i)
    \/ \E i \in 1..MaxConns : HandshakeFail(i)
    \/ \E i \in 1..MaxConns : DialOk(i)
    \/ \E i \in 1..MaxConns : DialFail(i)
    \/ \E i \in 1..MaxConns, d \in Dirs : PeerSend(i, d)
    \/ \E i \in 1..MaxConns, d \in Dirs, n \in 1..MaxBytes : CopyRead(i, d, n)
    \/ \E i \in 1..MaxConns, d \in Dirs, n \in 1..MaxBytes : CopyWrite(i, d, n)
    \/ \E i \in 1..MaxConns, d \in Dirs : CopyEof(i, d)
    \/ \E i \in 1..MaxConns : RelayDone(i)
    \/ \E i \in 1..MaxConns : RelayError(i)

Spec == Init /\ [][Next]_vars

----------------------------------------------------------------------------
(* Properties of the relay engine and of start-up (checked under Spec) *)

FailureLines ==
    {"TLS handshake error", "Backend connection error", "Proxy forwarding error"}

\* this step is connection i failing: its task logs an error and ends
FailsInStep(i) ==
    /\ i \in 1..Len(conns)
    /\ conns[i].state # "Closed"
    /\ conns'[i].state = "Closed"
    /\ conns'[i].log \in FailureLines

IsPrefix(s, t) == Len(s) <= Len(t) /\ s = SubSeq(t, 1, Len(s))

\* C1: failure isolation.  A step in which one connection fails (handshake,
\* backend dial or relay error) leaves the accept loop serving with its
\* listener bound, and changes no other connection.
C1_FailureIsolated ==
    [][\A i \in 1..MaxConns :
          FailsInStep(i) =>
              /\ pc' = "serving" /\ pc = "serving"
              /\ listener' = "bound"
              /\ exitErr' = None
              /\ Len(conns') = Len(conns)
              /\ \A j \in 1..Len(conns) : j # i => conns'[j] = conns[j]]_vars

\* C1 witness: one connection has failed its handshake while the server is
\* serving and another connection is relaying bytes in both directions
C1_Witness ==
    /\ pc = "serving"
    /\ \E i, j \in 1..Len(conns) :
          /\ conns[i].state = "Closed"
          /\ conns[i].log = "TLS handshake error"
          /\ conns[j].state = "Relaying"
          /\ conns[j].delivered["c2b"] # <<>>
          /\ conns[j].delivered["b2c"] # <<>>

\* C2: once the listener is bound and serving, nothing ends the accept loop:
\* a serving process is still serving after every step.
C2_ServingForever == [][pc = "serving" => pc' = "serving"]_vars

StartupErrorKinds ==
    {"FileNotFound", "ReadError", "UnsupportedExtension", "NoExtension",
     "EmptyFile", "EmptyPfxData", "MalformedBundle", "PasswordRequired",
     "InvalidPassword", "MissingPrivateKey", "PemParseError",
     "NoCertificatesFound", "MissingKeyArgument", "NoCertificateSpecified",
     "TlsConfigError", "AddrParseError", "BindError"}

FailedAtStartup ==
    pc = "exit" /\ IsSome(exitErr) /\ exitErr.some.kind \in StartupErrorKinds

\* C3: no partial start-up.  The listener is bound, and a connection accepted,
\* only after the certificate load and the TLS configuration both succeeded;
\* a failed load or an unparsable listen address ends the process; a process
\* that ended has an error to exit with; and one that ended during start-up
\* has no listener bound and never spawned a connection task.
C3_NoPartialStartup ==
    /\ (listener # "unbound" \/ conns # <<>>) =>
          /\ IsSome(loaded) /\ IsSome(config)
          /\ LoadFromArgs.ok
          /\ ParsesAsSocketAddr(args.input_address)
    /\ (pc # "load" /\ ~LoadFromArgs.ok) => FailedAtStartup
    /\ (pc \notin {"load", "tls_config", "parse_addr"}
          /\ ~ParsesAsSocketAddr(args.input_address)) => FailedAtStartup
    /\ pc = "exit" => IsSome(exitErr)
    /\ FailedAtStartup => listener = "unbound" /\ conns = <<>>

\* C3 witness: the process ended because the listen address could not be bound
C3_Witness ==
    /\ FailedAtStartup
    /\ exitErr.some.kind = "BindError"
    /\ IsSome(config)

\* C4: byte-transparent relay.  In both directions of a relaying connection
\* the bytes written to the receiver, followed by the bytes read and not yet
\* written, are a prefix of the bytes the sender sent.
C4_ByteTransparent ==
    \A i \in 1..Len(conns) :
        conns[i].state = "Relaying" =>
            \A d \in Dirs :
                /\ IsPrefix(conns[i].delivered[d], conns[i].sent[d])
                /\ IsPrefix(conns[i].delivered[d] \o conns[i].buf[d],
                            conns[i].sent[d])

\* C4 witness: a relaying connection has delivered two bytes to the backend
C4_Witness ==
    \E i \in 1..Len(conns) :
        /\ conns[i].state = "Relaying"
        /\ conns[i].delivered["c2b"] = <<"p", "q">>

----------------------------------------------------------------------------
(* Properties of certificate loading (checked under SpecLoad, over every   *)
(* command line and file system of the model)                              *)

\* the load has been attempted
LoadDone == pc # "load"

\* the load failed, and exitErr holds its error
LoadFailed == pc = "exit" /\ ~IsSome(loaded) /\ IsSome(exitErr)

LoadFailedWith(kind) == LoadFailed /\ exitErr.some.kind = kind

PositionalExt == ToLowercase(Extension(args.certificate.some))

\* the source is a PKCS#12 file: --pfx, or a positional .pfx/.p12 path
PfxSource ==
    \/ IsSome(args.pfx)
    \/ IsSome(args.certificate) /\ PositionalExt \in {"pfx", "p12"}

\* the source is a PEM pair: --cert/--key, or a positional PEM path and a key path
PemSource ==
    \/ IsSome(args.cert)
    \/ /\ IsSome(args.certificate)
       /\ PositionalExt \in {"pem", "crt", "cer", "cert", "key"}
       /\ IsSome(args.password_or_key)

CertFile == fs[CertPathOf(args).some]

KeyFile == fs[KeyPathOf(args).some]

\* the password the command line supplies for a PKCS#12 source, if any
SuppliedPassword == IF IsSome(args.pfx) THEN args.password ELSE args.password_or_key

\* C5: every bundle the loader returns has a non-empty certificate chain and
\* a private key.
C5_BundleNonEmpty ==
    IsSome(loaded) =>
        /\ Len(loaded.some.certs) > 0
        /\ loaded.some.key # None

\* C6: a PKCS#12 container whose contents do not extract under the supplied
\* password is reported as PasswordRequired (with the --password hint) when
\* the password is empty or absent, and as InvalidPassword otherwise.
C6_DecryptFailureByPassword ==
    (/\ LoadDone
     /\ PfxSource
     /\ Readable(CertFile)
     /\ CertFile.shape = "pfx"
     /\ \/ ~CertFile.sound
        \/ CertFile.password # (IF IsSome(SuppliedPassword)
                                THEN SuppliedPassword.some ELSE ""))
    => IF ~IsSome(SuppliedPassword) \/ SuppliedPassword = Some("")
       THEN LoadFailed /\ exitErr.some = Err("PasswordRequired", "--password")
       ELSE LoadFailedWith("InvalidPassword")

\* C6 witness: a protected container loaded with no password at all
C6_Witness ==
    /\ LoadFailedWith("PasswordRequired")
    /\ PfxSource
    /\ ~IsSome(SuppliedPassword)
    /\ CertFile.sound
    /\ CertFile.password = "secret"

\* a PKCS#12 file that decodes under the password p
ValidPfx(f, p) ==
    /\ Readable(f)
    /\ f.shape = "pfx"
    /\ f.sound
    /\ f.password = p
    /\ IsSome(f.pkey)

HasSection(f, type) ==
    /\ Readable(f)
    /\ f.shape = "pem"
    /\ \E k \in 1..Len(f.items) : f.items[k].type = type

\* a PEM file with a certificate and no section that fails to decode
ValidPemCerts(f) == HasSection(f, "CERTIFICATE") /\ ~HasSection(f, "MALFORMED")

\* a PEM file with a private key and no section that fails to decode
ValidPemKey(f) == HasSection(f, "PRIVATE KEY") /\ ~HasSection(f, "MALFORMED")

\* C7: in positional mode an extension outside pfx, p12, pem, crt, cer, cert,
\* key is rejected as UnsupportedExtension naming it; through --pfx or
\* --cert/--key no extension is checked and valid contents load.
C7_ExtensionAsymmetry ==
    LoadDone =>
        /\ (/\ IsSome(args.certificate)
            /\ Extension(args.certificate.some) # NoExtension
            /\ PositionalExt \notin
                  {"pfx", "p12", "pem", "crt", "cer", "cert", "key"})
           => LoadFailed /\ exitErr.some = Err("UnsupportedExtension", PositionalExt)
        /\ (IsSome(args.pfx) \/ IsSome(args.cert)) =>
              ~(LoadFailed /\ exitErr.some.kind \in {"UnsupportedExtension", "NoExtension"})
        /\ (IsSome(args.pfx) /\ ValidPfx(CertFile, UnwrapOrEmpty(args.password)))
           => IsSome(loaded)
        /\ (IsSome(args.cert) /\ ValidPemCerts(CertFile) /\ ValidPemKey(KeyFile))
           => IsSome(loaded)

\* C7 witness: a valid container named srv.txt is loaded through --pfx
C7_Witness ==
    /\ args.pfx = Some("srv.txt")
    /\ IsSome(loaded)
    /\ loaded.some.certs # <<>>

\* some file the resolved source reads is zero-length
ZeroLengthIngested ==
    \/ PfxSource /\ CertFile = EmptyFile
    \/ /\ PemSource
       /\ Exists(CertFile)
       /\ Exists(KeyFile)
       /\ (CertFile = EmptyFile \/ KeyFile = EmptyFile)

\* C8 as stated: whichever file the loader ingests, a zero-length one is
\* rejected as EmptyFile.
C8_EveryZeroLengthFileIsEmptyFile ==
    (LoadDone /\ ZeroLengthIngested) => LoadFailedWith("EmptyFile")

\* C8 amended: a zero-length PKCS#12 file is rejected as EmptyFile; the PEM
\* path has no zero-length check, so a zero-length certificate file is
\* rejected as NoCertificatesFound and a zero-length key file, read after a
\* certificate file that holds a certificate, as MissingPrivateKey.
C8_ZeroLengthByFormat ==
    LoadDone =>
        /\ (PfxSource /\ CertFile = EmptyFile) => LoadFailedWith("EmptyFile")
        /\ (PemSource /\ CertFile = EmptyFile /\ Exists(KeyFile))
           => LoadFailedWith("NoCertificatesFound")
        /\ (PemSource /\ ValidPemCerts(CertFile) /\ KeyFile = EmptyFile)
           => LoadFailedWith("MissingPrivateKey")

\* C8 witness: a zero-length PKCS#12 file was rejected as EmptyFile
C8_Witness ==
    /\ PfxSource
    /\ CertFile = EmptyFile
    /\ LoadFailedWith("EmptyFile")

\* the files the command line names that do not exist, certificate first
MissingPaths ==
    SelectSeq(
        (IF IsSome(CertPathOf(args)) THEN <<CertPathOf(args).some>> ELSE <<>>)
        \o (IF IsSome(KeyPathOf(args)) THEN <<KeyPathOf(args).some>> ELSE <<>>),
        LAMBDA n : ~Exists(fs[n]))

\* C9 as stated: for every source, named or positional, a missing file fails
\* the load with FileNotFound naming a missing path, before anything else.
C9_MissingFileAlwaysFileNotFound ==
    (LoadDone /\ MissingPaths # <<>>) =>
        /\ LoadFailedWith("FileNotFound")
        /\ \E k \in 1..Len(MissingPaths) : exitErr.some.detail = MissingPaths[k]

\* C9 amended: for --pfx, for --cert/--key, and for a positional path whose
\* extension is supported (with a key path given when it is a PEM extension),
\* a missing file fails the load with FileNotFound naming the first missing
\* path, whatever the other file holds; in positional mode an unsupported or
\* absent extension and a missing key argument are reported first.
C9_MissingFileAfterDetection ==
    LoadDone =>
        /\ ((PfxSource \/ PemSource) /\ MissingPaths # <<>>)
           => LoadFailed /\ exitErr.some = Err("FileNotFound", MissingPaths[1])
        /\ (IsSome(args.certificate) /\ ~PfxSource /\ ~PemSource)
           => /\ LoadFailed
              /\ exitErr.some.kind \in
                    {"UnsupportedExtension", "NoExtension", "MissingKeyArgument"}

\* C9 witness: the key file is missing and the certificate file, which does
\* not decode, was not parsed
C9_Witness ==
    /\ PemSource
    /\ HasSection(CertFile, "MALFORMED")
    /\ ~Exists(KeyFile)
    /\ LoadFailed
    /\ exitErr.some = Err("FileNotFound", KeyPathOf(args).some)

\* the certificates of the CERTIFICATE sections of a PEM file, in file order
CertBlocks(f) ==
    LET blocks == SelectSeq(Sections(f), LAMBDA it : it.type = "CERTIFICATE")
    IN  [k \in 1..Len(blocks) |-> [der |-> blocks[k].der]]

\* C10: PEM chain decoding.  With both files present and a certificate file
\* whose sections all decode: no certificate block fails the load with
\* NoCertificatesFound; n >= 1 blocks never do, the chain returned is exactly
\* the n blocks in file order, and it is returned whenever the key file holds
\* a key.
C10_PemChainInFileOrder ==
    (/\ LoadDone
     /\ PemSource
     /\ Readable(CertFile)
     /\ Exists(KeyFile)
     /\ ~HasSection(CertFile, "MALFORMED"))
    => IF CertBlocks(CertFile) = <<>>
       THEN LoadFailedWith("NoCertificatesFound")
       ELSE /\ ~LoadFailedWith("NoCertificatesFound")
            /\ IsSome(loaded) => loaded.some.certs = CertBlocks(CertFile)
            /\ ValidPemKey(KeyFile) => IsSome(loaded)

\* C10 witness: a chain of two certificates, returned in file order
C10_Witness ==
    /\ PemSource
    /\ IsSome(loaded)
    /\ loaded.some.certs = <<[der |-> "ca1"], [der |-> "leaf"]>>

----------------------------------------------------------------------------
(* Properties of the connection life cycle (checked under Spec) *)

\* sockets the connection tasks hold open: client-facing and backend streams
RECURSIVE OpenSockets(_)
OpenSockets(cs) ==
    IF cs = <<>> THEN 0
    ELSE (IF Head(cs).client THEN 1 ELSE 0)
         + (IF Head(cs).backend THEN 1 ELSE 0)
         + OpenSockets(Tail(cs))

AllClosed == \A i \in 1..Len(conns) : conns[i].state = "Closed"

\* C11: no resource leak.  A Closed connection holds neither its client-facing
\* stream nor a backend stream; once every connection is Closed no
\* per-connection socket is open, as before the first connection; and a Closed
\* connection never changes again.
C11_NoResourceLeak ==
    /\ [](/\ \A i \in 1..Len(conns) :
               conns[i].state = "Closed" => ~conns[i].client /\ ~conns[i].backend
          /\ AllClosed => OpenSockets(conns) = 0)
    /\ [][\A i \in 1..Len(conns) :
             conns[i].state = "Closed" => conns'[i] = conns[i]]_vars

\* C11 witness: two connect-relay-close cycles are over, the server is serving
C11_Witness ==
    /\ pc = "serving"
    /\ Len(conns) >= 2
    /\ \A i \in 1..Len(conns) : conns[i].state = "Closed" /\ conns[i].log = "none"
    /\ OpenSockets(conns) = 0

PhaseRank(st) ==
    CASE st = "Accepted"    -> 0
      [] st = "Handshaking" -> 1
      [] st = "Dialing"     -> 2
      [] st = "Relaying"    -> 3
      [] st = "Closed"      -> 4

NothingForwarded(c) ==
    \A d \in Dirs : c.buf[d] = <<>> /\ c.delivered[d] = <<>>

\* C13: phase ordering.  A connection starts dialing the backend only from a
\* completed handshake, and starts relaying only from a completed dial; it
\* holds a backend stream only while relaying; and before it is relaying no
\* byte has been read or written by the relay in either direction, even one
\* the client has already sent.
C13_PhaseOrder ==
    /\ [](\A i \in 1..Len(conns) :
             /\ conns[i].backend => conns[i].state = "Relaying"
             /\ PhaseRank(conns[i].state) < 3 => NothingForwarded(conns[i]))
    /\ [][\A i \in 1..Len(conns) :
             /\ (conns'[i].state = "Dialing" /\ conns[i].state # "Dialing")
                => conns[i].state = "Handshaking"
             /\ (conns'[i].state = "Relaying" /\ conns[i].state # "Relaying")
                => conns[i].state = "Dialing" /\ NothingForwarded(conns[i])
             /\ ~NothingForwarded(conns'[i])
                => conns[i].state = "Relaying" /\ conns[i].backend]_vars

\* C13 witness: the client has sent a byte after the handshake, the backend
\* dial is still pending, and nothing has been forwarded
C13_Witness ==
    \E i \in 1..Len(conns) :
        /\ conns[i].state = "Dialing"
        /\ conns[i].sent["c2b"] # <<>>
        /\ NothingForwarded(conns[i])

\* C14: a failed handshake takes the connection straight from Handshaking to
\* Closed with no backend stream ever opened; the step changes neither the
\* listener, the accept loop nor any other connection; and the connection
\* never leaves Closed, so the handshake is not retried.
C14_HandshakeFailureCloses ==
    [][\A i \in 1..Len(conns) :
          /\ (conns[i].log # "TLS handshake error"
              /\ conns'[i].log = "TLS handshake error")
             => /\ conns[i].state = "Handshaking"
                /\ ~conns[i].backend
                /\ conns'[i].state = "Closed"
                /\ ~conns'[i].client /\ ~conns'[i].backend
                /\ pc' = pc /\ listener' = listener /\ exitErr' = exitErr
                /\ Len(conns') = Len(conns)
                /\ \A j \in 1..Len(conns) : j # i => conns'[j] = conns[j]
          /\ conns[i].log = "TLS handshake error"
             => /\ conns[i].state = "Closed"
                /\ conns'[i] = conns[i]]_vars

\* C14 witness: one connection failed its handshake, another is relaying
C14_Witness ==
    \E i, j \in 1..Len(conns) :
        /\ conns[i].log = "TLS handshake error"
        /\ conns[i].state = "Closed"
        /\ conns[j].state = "Relaying"
        /\ listener = "bound"

\* C15: a failed backend dial takes the connection from Dialing, with nothing
\* relayed, to Closed with the client-facing stream closed and no backend
\* stream held; the connection never leaves Closed, so the dial is not retried
\* and no byte is relayed afterwards.
C15_DialFailureCloses ==
    [][\A i \in 1..Len(conns) :
          /\ (conns[i].log # "Backend connection error"
              /\ conns'[i].log = "Backend connection error")
             => /\ conns[i].state = "Dialing"
                /\ NothingForwarded(conns[i])
                /\ conns'[i].state = "Closed"
                /\ ~conns'[i].client /\ ~conns'[i].backend
                /\ NothingForwarded(conns'[i])
          /\ conns[i].log = "Backend connection error"
             => /\ conns[i].state = "Closed"
                /\ ~conns[i].client /\ ~conns[i].backend
                /\ conns'[i] = conns[i]]_vars

\* C15 witness: a connection failed its dial and is Closed without its
\* client-facing stream, while the server keeps serving
C15_Witness ==
    /\ pc = "serving"
    /\ \E i \in 1..Len(conns) :
          /\ conns[i].state = "Closed"
          /\ conns[i].log = "Backend connection error"
          /\ ~conns[i].client

\* C16: accepting is never blocked by connections in flight.  While serving
\* (and within the bound on accepted connections) the accept step is enabled
\* whatever the state of the existing connections; and an accept step only
\* spawns a task in state Accepted: it changes no existing connection.
C16_AcceptNeverBlocked ==
    /\ []((pc = "serving" /\ Len(conns) < MaxConns) => ENABLED Accept)
    /\ [][Len(conns') # Len(conns) =>
             /\ Len(conns') = Len(conns) + 1
             /\ conns'[Len(conns')].state = "Accepted"
             /\ ~conns'[Len(conns')].backend
             /\ NothingForwarded(conns'[Len(conns')])
             /\ \A j \in 1..Len(conns) : conns'[j] = conns[j]]_vars

\* C16 witness: a second connection was accepted while the first is still
\* waiting for its handshake
C16_Witness ==
    /\ Len(conns) >= 2
    /\ conns[1].state = "Handshaking"
    /\ conns[2].state = "Relaying"

----------------------------------------------------------------------------
(* Further properties of certificate loading (checked under SpecLoad) *)

\* C17: PKCS#12 chain order.  The chain returned for a PKCS#12 source is the
\* end-entity certificate, when the container has one, followed by the CA
\* certificates in the order the container yields them, and nothing else:
\* no certificate is dropped or duplicated.
C17_PfxChainOrder ==
    (LoadDone /\ PfxSource /\ IsSome(loaded)) =>
        LET f     == CertFile
            ca    == IF IsSome(f.ca) THEN f.ca.some ELSE <<>>
            off   == IF IsSome(f.cert) THEN 1 ELSE 0
            chain == loaded.some.certs
        IN  /\ Len(chain) = off + Len(ca)
            /\ IsSome(f.cert) => chain[1] = [der |-> f.cert.some.x509]
            /\ \A k \in 1..Len(ca) : chain[off + k] = [der |-> ca[k].x509]

\* C17 witness: a leaf and two CA certificates, returned leaf first and the
\* CA certificates in container order
C17_Witness ==
    /\ PfxSource
    /\ IsSome(loaded)
    /\ IsSome(CertFile.cert)
    /\ CertFile.ca = Some(<<X509("ca2"), X509("ca1")>>)
    /\ loaded.some.certs = <<[der |-> "leaf"], [der |-> "ca2"], [der |-> "ca1"]>>

PasswordRejected ==
    LoadFailedWith("PasswordRequired") \/ LoadFailedWith("InvalidPassword")

\* the password main() routes to the decoder, by invocation mode
RoutedPassword ==
    IF IsSome(args.pfx)
    THEN (IF IsSome(args.password) THEN args.password.some ELSE "")
    ELSE (IF IsSome(args.password_or_key) THEN args.password_or_key.some ELSE "")

\* C19: password routing.  A container that would extract is accepted exactly
\* when its password is the one routed by the invocation mode: --password for
\* a --pfx source, the second positional argument for a positional .pfx/.p12
\* source; so a positional source with --password and no second positional is
\* decoded with the empty password.
C19_PasswordRouting ==
    (/\ LoadDone
     /\ PfxSource
     /\ Readable(CertFile)
     /\ CertFile.shape = "pfx"
     /\ CertFile.sound)
    => /\ PasswordRejected <=> (CertFile.password # RoutedPassword)
       /\ (IsSome(args.certificate) /\ ~IsSome(args.password_or_key))
          => (PasswordRejected <=> CertFile.password # "")
       /\ (IsSome(args.certificate) /\ ~IsSome(args.password_or_key)
             /\ CertFile.password # "")
          => LoadFailedWith("PasswordRequired")

\* C19 witness: a positional container protected by "secret", given
\* --password secret and no second positional, is refused for want of a password
C19_Witness ==
    /\ IsSome(args.certificate)
    /\ PfxSource
    /\ args.password = Some("secret")
    /\ ~IsSome(args.password_or_key)
    /\ Readable(CertFile)
    /\ CertFile.shape = "pfx"
    /\ CertFile.sound
    /\ CertFile.password = "secret"
    /\ LoadFailedWith("PasswordRequired")

----------------------------------------------------------------------------
(* Liveness.  The runtime schedules every spawned task; every pending      *)
(* handshake and backend dial resolves, with success or an error; the copy *)
(* is polled whenever a stream is readable or writable; and each peer      *)
(* eventually closes its side (or its stream fails).                       *)

TaskFairness(i) ==
    /\ WF_vars(StartTask(i))
    /\ WF_vars(HandshakeOk(i) \/ HandshakeFail(i))
    /\ WF_vars(DialOk(i) \/ DialFail(i))
    /\ \A d \in Dirs :
          /\ WF_vars(\E n \in 1..MaxBytes : CopyRead(i, d, n))
          /\ WF_vars(\E n \in 1..MaxBytes : CopyWrite(i, d, n))
          /\ WF_vars(CopyEof(i, d))
    /\ WF_vars(RelayDone(i))

SpecLive == Init /\ [][Next]_vars /\ \A i \in 1..MaxConns : TaskFairness(i)

\* every accepted connection eventually reaches Closed
EventuallyClosed ==
    \A i \in 1..MaxConns :
        (Len(conns) >= i) ~> (Len(conns) >= i /\ conns[i].state = "Closed")

\* a Closed connection ended by an error of its own or by a clean close
EndedNaturally ==
    \A i \in 1..Len(conns) :
        conns[i].state = "Closed" => conns[i].log \in FailureLines \cup {"none"}

\* C18: connection liveness.  Under the fairness above every accepted
\* connection eventually reaches Closed, and a connection ends only by an
\* error or a clean close: never by cancellation or a timeout.
C18_RunsToNaturalCompletion == EventuallyClosed /\ []EndedNaturally

====
